---- MODULE Spec2Model ----
(***************************************************************************)
(* Dual energy source management system: the relay controller              *)
(* (hardware/power_controller.py), the supervisor cycle, its safety checks *)
(* and its shutdown (main.py), the rule-based optimizer                    *)
(* (ai_models/energy_optimizer.py) and the publication of sensor readings  *)
(* (hardware/sensor_manager.py).                                           *)
(*                                                                         *)
(* Voltages and currents are in tenths of a unit (12.0 V = 120), so the    *)
(* thresholds of the code stay integers; temperatures are in degrees.      *)
(***************************************************************************)
EXTENDS Integers, Sequences, FiniteSets, TLC

VARIABLES
    hardware_available,  \* PowerController.hardware_available
    relay_states,        \* PowerController.relay_states
    frame,               \* per thread: the PowerController call in progress
    running,             \* DualEnergySystem.running
    current_source,      \* DualEnergySystem.current_source
    sup_pc,              \* where the control loop stands in its cycle
    sensor_data,         \* control_loop's sensor_data: the cycle's telemetry
    optimal_source,      \* control_loop's optimal_source
    health_idx,          \* check_system_health: index into emergency_conditions
    safe_source,         \* handle_emergency's safe_source
    cycle,               \* what has happened in the current cycle so far
    latest_readings,     \* SensorManager.latest_readings
    monitoring,          \* SensorManager.monitoring
    sensor_hardware,     \* SensorManager.hardware_available
    sensor_call,         \* per thread: the SensorManager call in progress
    reads,               \* number of read_all_sensors calls made so far
    probe                \* a function of the supervisor applied to an input

pcvars == <<hardware_available, relay_states, frame>>
supvars == <<running, current_source, sup_pc, sensor_data, optimal_source,
             health_idx, safe_source, cycle>>
smvars == <<latest_readings, monitoring, sensor_hardware, sensor_call, reads>>
vars == <<hardware_available, relay_states, frame, running, current_source,
          sup_pc, sensor_data, optimal_source, health_idx, safe_source, cycle,
          latest_readings, monitoring, sensor_hardware, sensor_call, reads, probe>>

\* The threads that call into the PowerController: the control loop (main
\* thread) and the override surface (dashboard thread).
Threads == {"ctl", "web"}

\* The three relays, in the order the code iterates over them.
AllSources == <<"solar", "thermal", "battery">>
Sources == {AllSources[i] : i \in 1..Len(AllSources)}

\* PowerController.gpio_pins: the keys the validity test of activate_source
\* and deactivate_source looks up.
gpio_pins == [solar |-> 18, thermal |-> 19, battery |-> 20, emergency |-> 21]

\* Source names a caller may pass: the three sources, the 'emergency' key of
\* gpio_pins, a name that is no key at all, and the empty (falsy) name.
ArgNames == Sources \cup {"emergency", "grid"}
SafeArgNames == ArgNames \cup {""}

\* relay_states as set in __init__: battery only.
InitialRelayStates == [s \in Sources |-> s = "battery"]

Energized == {s \in Sources : relay_states[s]}
Only(s) == [x \in Sources |-> x = s]

\* GPIO.output is called only when hardware_available; it may raise.
Faults == IF hardware_available THEN BOOLEAN ELSE {FALSE}

\* The guard of activate_source / deactivate_source.
ValidSource(source) == source \in DOMAIN gpio_pins /\ source # "emergency"

\* activate_source: its return value, and relay_states after it.
activate_source_ok(source, fault) == ValidSource(source) /\ ~fault

activate_source(rs, source, fault) ==
    IF activate_source_ok(source, fault) THEN [rs EXCEPT ![source] = TRUE] ELSE rs

\* deactivate_source: its return value, and relay_states after it.
deactivate_source_ok(source, fault) == ValidSource(source) /\ ~fault

deactivate_source(rs, source, fault) ==
    IF deactivate_source_ok(source, fault) THEN [rs EXCEPT ![source] = FALSE] ELSE rs

\* Outcome of a call made inside an operation: not made, returned True,
\* returned False.
Outcome(ok) == IF ok THEN "ok" ELSE "failed"

IdleFrame ==
    [op |-> "none", pc |-> "idle", src |-> "", dst |-> "", idx |-> 0,
     ret |-> "None", deact |-> "none", act |-> "none", fb |-> "none",
     exc |-> "none", prev |-> "none"]

\* What the previous completed operation of a thread was, as far as a later
\* operation is concerned: a switch_source whose target activation failed.
PrevOf(f) ==
    IF f.op = "switch_source" /\ f.pc = "done" /\ f.act = "failed"
    THEN "switch_failed" ELSE "other"

Returned(t) == frame[t].pc \in {"idle", "done"}

-----------------------------------------------------------------------------
\* switch_source(from_source, to_source)

\* switch_source without its same-source test: every call goes on to
\* _perform_switch.
switch_source_without_same_source_test(t, from_source, to_source) ==
    /\ frame' = [frame EXCEPT ![t] =
          [IdleFrame EXCEPT !.op = "switch_source",
                            !.src = from_source, !.dst = to_source,
                            !.prev = PrevOf(frame[t]),
                            !.pc = "break"]]
    /\ UNCHANGED <<relay_states, hardware_available>>

\* The call up to _perform_switch: the same-source test.
switch_source(t, from_source, to_source) ==
    /\ frame' = [frame EXCEPT ![t] =
          [IdleFrame EXCEPT !.op = "switch_source",
                            !.src = from_source, !.dst = to_source,
                            !.prev = PrevOf(frame[t]),
                            !.pc = IF from_source = to_source THEN "done" ELSE "break",
                            !.ret = IF from_source = to_source THEN "True" ELSE "None"]]
    /\ UNCHANGED <<relay_states, hardware_available>>

\* _perform_switch, step 1: deactivate the current source (its result is
\* not looked at), then the safety delay.
perform_switch_break(t) ==
    /\ frame[t].op = "switch_source" /\ frame[t].pc = "break"
    /\ \E fault \in Faults :
         IF frame[t].src \in DOMAIN relay_states
         THEN /\ relay_states' = deactivate_source(relay_states, frame[t].src, fault)
              /\ frame' = [frame EXCEPT ![t].pc = "make",
                              ![t].deact = Outcome(deactivate_source_ok(frame[t].src, fault))]
         ELSE /\ relay_states' = relay_states
              /\ frame' = [frame EXCEPT ![t].pc = "make"]
    /\ UNCHANGED hardware_available

\* _perform_switch, step 3: activate the new source; switch_source returns
\* its result.
perform_switch_make(t) ==
    /\ frame[t].op = "switch_source" /\ frame[t].pc = "make"
    /\ \E fault \in Faults :
         LET success == activate_source_ok(frame[t].dst, fault) IN
         /\ relay_states' = activate_source(relay_states, frame[t].dst, fault)
         /\ frame' = [frame EXCEPT ![t].pc = "done",
                         ![t].act = Outcome(success),
                         ![t].ret = IF success THEN "True" ELSE "False"]
    /\ UNCHANGED hardware_available

-----------------------------------------------------------------------------
\* emergency_switch(safe_source)

emergency_switch(t, safe) ==
    /\ frame' = [frame EXCEPT ![t] =
          [IdleFrame EXCEPT !.op = "emergency_switch", !.dst = safe,
                            !.prev = PrevOf(frame[t]),
                            !.pc = "off", !.idx = 1]]
    /\ UNCHANGED <<relay_states, hardware_available>>

\* emergency_off driving the pins without recording the relays as off.
emergency_off_keeping_relay_states(t) ==
    /\ frame[t].op = "emergency_switch" /\ frame[t].pc = "off"
    /\ \E fault \in Faults :
         IF fault
         THEN /\ relay_states' = relay_states
              /\ frame' = [frame EXCEPT ![t].pc = "done", ![t].exc = "caught",
                              ![t].deact = "failed"]
         ELSE /\ relay_states' = relay_states
              /\ frame' = [frame EXCEPT
                    ![t].idx = IF frame[t].idx = Len(AllSources) THEN 0 ELSE frame[t].idx + 1,
                    ![t].pc = IF frame[t].idx = Len(AllSources) THEN "activate" ELSE "off",
                    ![t].deact = "ok"]
    /\ UNCHANGED hardware_available

\* One round of the loop that switches every relay off. A GPIO error leaves
\* the loop and the whole try block: it is logged, nothing is activated.
emergency_off(t) ==
    /\ frame[t].op = "emergency_switch" /\ frame[t].pc = "off"
    /\ \E fault \in Faults :
         IF fault
         THEN /\ relay_states' = relay_states
              /\ frame' = [frame EXCEPT ![t].pc = "done", ![t].exc = "caught",
                              ![t].deact = "failed"]
         ELSE /\ relay_states' = [relay_states EXCEPT ![AllSources[frame[t].idx]] = FALSE]
              /\ frame' = [frame EXCEPT
                    ![t].idx = IF frame[t].idx = Len(AllSources) THEN 0 ELSE frame[t].idx + 1,
                    ![t].pc = IF frame[t].idx = Len(AllSources) THEN "activate" ELSE "off",
                    ![t].deact = "ok"]
    /\ UNCHANGED hardware_available

\* After the delay: activate the safe source, if one was named. The result of
\* activate_source is dropped; emergency_switch returns None.
emergency_activate(t) ==
    /\ frame[t].op = "emergency_switch" /\ frame[t].pc = "activate"
    /\ \E fault \in Faults :
         IF frame[t].dst # ""
         THEN /\ relay_states' = activate_source(relay_states, frame[t].dst, fault)
              /\ frame' = [frame EXCEPT ![t].pc = "done",
                              ![t].act = Outcome(activate_source_ok(frame[t].dst, fault))]
         ELSE /\ relay_states' = relay_states
              /\ frame' = [frame EXCEPT ![t].pc = "done"]
    /\ UNCHANGED hardware_available

-----------------------------------------------------------------------------
\* force_source(source)

force_source(t, source) ==
    /\ frame' = [frame EXCEPT ![t] =
          [IdleFrame EXCEPT !.op = "force_source", !.dst = source,
                            !.prev = PrevOf(frame[t]),
                            !.pc = "off", !.idx = 1]]
    /\ UNCHANGED <<relay_states, hardware_available>>

\* One round of the loop that deactivates every source; the result of
\* deactivate_source is not looked at.
force_off(t) ==
    /\ frame[t].op = "force_source" /\ frame[t].pc = "off"
    /\ \E fault \in Faults :
         LET src == AllSources[frame[t].idx] IN
         /\ relay_states' = deactivate_source(relay_states, src, fault)
         /\ frame' = [frame EXCEPT
               ![t].idx = IF frame[t].idx = Len(AllSources) THEN 0 ELSE frame[t].idx + 1,
               ![t].pc = IF frame[t].idx = Len(AllSources) THEN "activate" ELSE "off",
               ![t].deact = IF deactivate_source_ok(src, fault) /\ frame[t].deact # "failed"
                            THEN "ok" ELSE "failed"]
    /\ UNCHANGED hardware_available

\* Activate the requested source.
force_activate(t) ==
    /\ frame[t].op = "force_source" /\ frame[t].pc = "activate"
    /\ \E fault \in Faults :
         LET success == activate_source_ok(frame[t].dst, fault) IN
         /\ relay_states' = activate_source(relay_states, frame[t].dst, fault)
         /\ frame' = [frame EXCEPT ![t].act = Outcome(success),
                         ![t].pc = IF success THEN "done" ELSE "revert",
                         ![t].ret = IF success THEN "True" ELSE "None"]
    /\ UNCHANGED hardware_available

\* force_revert trying the requested source again instead of battery.
force_revert_to_requested_source(t) ==
    /\ frame[t].op = "force_source" /\ frame[t].pc = "revert"
    /\ \E fault \in Faults :
         /\ relay_states' = activate_source(relay_states, frame[t].dst, fault)
         /\ frame' = [frame EXCEPT ![t].pc = "done", ![t].ret = "False",
                         ![t].fb = Outcome(activate_source_ok(frame[t].dst, fault))]
    /\ UNCHANGED hardware_available

\* The requested source failed: revert to battery and return False.
force_revert(t) ==
    /\ frame[t].op = "force_source" /\ frame[t].pc = "revert"
    /\ \E fault \in Faults :
         /\ relay_states' = activate_source(relay_states, "battery", fault)
         /\ frame' = [frame EXCEPT ![t].pc = "done", ![t].ret = "False",
                         ![t].fb = Outcome(activate_source_ok("battery", fault))]
    /\ UNCHANGED hardware_available

-----------------------------------------------------------------------------
\* Telemetry: a mapping from signal name to value. dict.get(key, default).

Get(d, key, default) == IF key \in DOMAIN d THEN d[key] ELSE default

\* The value of sensor_data before the first cycle has read any.
NoTelemetry == [timestamp |-> 0]

\* The words the weather adjustments look for in the lower-cased descriptor,
\* for each descriptor the model draws.
WeatherWords(weather) ==
    CASE weather = "clear" -> {"clear"}
      [] weather = "clear_night" -> {"clear"}
      [] weather = "Sunny" -> {"sunny"}
      [] weather = "partly cloudy" -> {"cloudy"}
      [] weather = "Overcast" -> {"overcast"}
      [] weather = "light rain" -> {"rain"}
      [] weather = "thunderstorm" -> {"storm"}
      [] weather = "cloudy with rain" -> {"cloudy", "rain"}
      [] OTHER -> {}

\* EnergyOptimizer thresholds (__init__).
good_irradiance == 600
moderate_irradiance == 300
min_irradiance == 100
good_temp == 25
excellent_temp == 30
min_wind == 5
high_level == 80
good_level == 50
low_level == 20
critical_level == 10
high_demand == 150
day_start == 6
day_end == 18

\* _standardize_sensor_data with midnight as the default hour.
standardize_sensor_data_midnight_default(d) ==
    [solar_irradiance |-> Get(d, "solar_irradiance", Get(d, "solar_voltage", 0) * 5),
     temperature |-> Get(d, "temperature", Get(d, "ambient_temperature", 20)),
     battery_level |-> Get(d, "battery_level", Get(d, "battery_soc", 50)),
     power_demand |-> Get(d, "power_demand", Get(d, "load_demand", 100)),
     wind_speed |-> Get(d, "wind_speed", 0),
     time_of_day |-> Get(d, "time_of_day", Get(d, "hour_of_day", 0)),
     weather_condition |-> Get(d, "weather_condition", "clear")]

\* _standardize_sensor_data. solar_voltage is in tenths of a volt, so the
\* proxy solar_voltage * 50 is solar_voltage(tenths) * 5.
standardize_sensor_data(d) ==
    [solar_irradiance |-> Get(d, "solar_irradiance", Get(d, "solar_voltage", 0) * 5),
     temperature |-> Get(d, "temperature", Get(d, "ambient_temperature", 20)),
     battery_level |-> Get(d, "battery_level", Get(d, "battery_soc", 50)),
     power_demand |-> Get(d, "power_demand", Get(d, "load_demand", 100)),
     wind_speed |-> Get(d, "wind_speed", 0),
     time_of_day |-> Get(d, "time_of_day", Get(d, "hour_of_day", 12)),
     weather_condition |-> Get(d, "weather_condition", "clear")]

\* The night test with the evening hour itself counted as night.
IsNight_from_day_end(d) == d.time_of_day < day_start \/ d.time_of_day >= day_end

IsNight(d) == d.time_of_day < day_start \/ d.time_of_day > day_end

Cloudy(d) == WeatherWords(d.weather_condition) \cap {"cloudy", "overcast"} # {}
Rainy(d) == ~Cloudy(d) /\ WeatherWords(d.weather_condition) \cap {"rain", "storm"} # {}
Sunny(d) == ~Cloudy(d) /\ ~Rainy(d)
              /\ WeatherWords(d.weather_condition) \cap {"sunny", "clear"} # {}

\* The solar score with every irradiance tier that is exceeded counted.
solar_score_cumulative(d) ==
      (IF d.solar_irradiance > good_irradiance THEN 3 ELSE 0)
    + (IF d.solar_irradiance > moderate_irradiance THEN 2 ELSE 0)
    + (IF d.solar_irradiance > min_irradiance THEN 1 ELSE 0)
    + (IF day_start <= d.time_of_day /\ d.time_of_day <= day_end THEN 1 ELSE 0)
    + (IF d.time_of_day < day_start \/ d.time_of_day > day_end THEN -2 ELSE 0)
    + (IF WeatherWords(d.weather_condition) \cap {"cloudy", "overcast"} # {} THEN -1
       ELSE IF WeatherWords(d.weather_condition) \cap {"rain", "storm"} # {} THEN -2
       ELSE IF WeatherWords(d.weather_condition) \cap {"sunny", "clear"} # {} THEN 1
       ELSE 0)

\* _predict_energy_source: the three scores, on standardized telemetry.
solar_score(d) ==
      (IF d.solar_irradiance > good_irradiance THEN 3
       ELSE IF d.solar_irradiance > moderate_irradiance THEN 2
       ELSE IF d.solar_irradiance > min_irradiance THEN 1 ELSE 0)
    + (IF day_start <= d.time_of_day /\ d.time_of_day <= day_end THEN 1 ELSE 0)
    + (IF IsNight(d) THEN -2 ELSE 0)
    + (IF Cloudy(d) THEN -1 ELSE IF Rainy(d) THEN -2 ELSE IF Sunny(d) THEN 1 ELSE 0)

\* The thermal score with a penalty for a temperature at or below the good
\* temperature.
thermal_score_with_cold_penalty(d) ==
      (IF d.temperature > excellent_temp THEN 3
       ELSE IF d.temperature > good_temp THEN 2 ELSE -1)
    + (IF d.wind_speed > min_wind THEN 1 ELSE 0)
    + (IF d.power_demand > high_demand THEN 1 ELSE 0)
    + (IF IsNight(d) THEN 1 ELSE 0)
    + (IF Cloudy(d) THEN 1 ELSE 0)

thermal_score(d) ==
      (IF d.temperature > excellent_temp THEN 3
       ELSE IF d.temperature > good_temp THEN 2 ELSE 0)
    + (IF d.wind_speed > min_wind THEN 1 ELSE 0)
    + (IF d.power_demand > high_demand THEN 1 ELSE 0)
    + (IF IsNight(d) THEN 1 ELSE 0)
    + (IF Cloudy(d) THEN 1 ELSE 0)

\* The battery score without its night bonus.
battery_score_without_night_bonus(d) ==
      (IF d.battery_level > high_level THEN 2
       ELSE IF d.battery_level > good_level THEN 1 ELSE 0)
    + (IF d.battery_level < low_level THEN -3
       ELSE IF d.battery_level < critical_level THEN -5 ELSE 0)
    + (IF d.power_demand > high_demand THEN 1 ELSE 0)
    + (IF Rainy(d) THEN 1 ELSE 0)

battery_score(d) ==
      (IF d.battery_level > high_level THEN 2
       ELSE IF d.battery_level > good_level THEN 1 ELSE 0)
    + (IF d.battery_level < low_level THEN -3
       ELSE IF d.battery_level < critical_level THEN -5 ELSE 0)
    + (IF d.power_demand > high_demand THEN 1 ELSE 0)
    + (IF IsNight(d) THEN 1 ELSE 0)
    + (IF Rainy(d) THEN 1 ELSE 0)

\* scores, in list order (solar, thermal, battery).
Scores(d) == <<solar_score(d), thermal_score(d), battery_score(d)>>

Max3(sc) ==
    LET m12 == IF sc[1] >= sc[2] THEN sc[1] ELSE sc[2]
    IN IF m12 >= sc[3] THEN m12 ELSE sc[3]

\* The last index holding the maximum.
prediction_last_index(d) ==
    LET sc == <<solar_score(d), thermal_score(d), battery_score(d)>>
        m12 == IF sc[1] >= sc[2] THEN sc[1] ELSE sc[2]
        m == IF m12 >= sc[3] THEN m12 ELSE sc[3] IN
    IF sc[3] = m THEN 3 ELSE IF sc[2] = m THEN 2 ELSE 1

\* scores.index(max(scores)): the first index holding the maximum.
prediction(d) ==
    LET sc == Scores(d) IN
    IF sc[1] = Max3(sc) THEN 1 ELSE IF sc[2] = Max3(sc) THEN 2 ELSE 3

\* predict_optimal_source handing the raw telemetry to
\* _predict_energy_source, whose own defaults then apply: no alias is
\* read and a missing weather descriptor is the empty string.
predict_optimal_source_unstandardized(raw) ==
    AllSources[prediction(
        [solar_irradiance |-> Get(raw, "solar_irradiance", 0),
         temperature |-> Get(raw, "temperature", 20),
         battery_level |-> Get(raw, "battery_level", 50),
         power_demand |-> Get(raw, "power_demand", 100),
         wind_speed |-> Get(raw, "wind_speed", 0),
         time_of_day |-> Get(raw, "time_of_day", 12),
         weather_condition |-> Get(raw, "weather_condition", "")])]

\* predict_optimal_source: sources[prediction], on raw telemetry.
predict_optimal_source(raw) == AllSources[prediction(standardize_sensor_data(raw))]

\* max(0, score)
Positive(score) == IF score > 0 THEN score ELSE 0

\* The confidence as the quotient over the plain sum of the scores.
confidence_over_plain_sum(sc) ==
    IF sc[1] + sc[2] + sc[3] # 0
    THEN <<10 * Max3(sc), 10 * (sc[1] + sc[2] + sc[3]) + 1>>
    ELSE <<1, 2>>

\* The confidence with 0 where no score is positive.
confidence_zero_fallback(sc) ==
    LET total_positive_score == Positive(sc[1]) + Positive(sc[2]) + Positive(sc[3]) IN
    IF total_positive_score > 0
    THEN <<10 * Max3(sc), 10 * total_positive_score + 1>>
    ELSE <<0, 1>>

\* _predict_energy_source's confidence, as a fraction <<numerator,
\* denominator>>: max_score / (total_positive_score + 0.1) with both sides
\* multiplied by 10, or 0.5 as <<1, 2>>.
confidence(sc) ==
    LET total_positive_score == Positive(sc[1]) + Positive(sc[2]) + Positive(sc[3]) IN
    IF total_positive_score > 0
    THEN <<10 * Max3(sc), 10 * total_positive_score + 1>>
    ELSE <<1, 2>>

\* _generate_reasoning's fallback entry.
DefaultReason == "Default decision based on current conditions"

\* No entry, whether the clause fired or not.
Reason_never_appended(fired, entry) == <<>>

\* <<entry>> when the clause fired, nothing otherwise (reasons.append).
Reason(fired, entry) == IF fired THEN <<entry>> ELSE <<>>

\* The reasons _generate_reasoning collects before its fallback.
reasons(d, p) ==
    IF p = 1
    THEN Reason(d.solar_irradiance > 600, "Excellent solar irradiance detected")
         \o Reason(6 <= d.time_of_day /\ d.time_of_day <= 18,
                   "Daytime hours favor solar energy")
         \o Reason(d.battery_level > 50, "Battery level adequate for solar operation")
    ELSE IF p = 2
    THEN Reason(d.temperature > 30, "High temperature excellent for thermal energy")
         \o Reason(d.wind_speed > 5, "Wind conditions support thermal efficiency")
         \o Reason(d.power_demand > 150, "High power demand suits thermal stability")
    ELSE Reason(d.time_of_day < 6 \/ d.time_of_day > 18, "Night time favors battery usage")
         \o Reason(d.solar_irradiance < 100,
                   "Low solar availability requires battery backup")
         \o Reason(d.battery_level > 80, "High battery level available for use")

\* _generate_reasoning returning the collected reasons as they are.
generate_reasoning_without_fallback(d, p) == reasons(d, p)

\* _generate_reasoning on standardized telemetry and the prediction index.
generate_reasoning(d, p) ==
    IF reasons(d, p) # <<>> THEN reasons(d, p) ELSE <<DefaultReason>>

\* explain_decision's names of the sources.
ChosenNames == <<"Solar Power", "Thermal Energy", "Battery Power">>

\* explain_decision on raw telemetry: the decision (sensor_analysis left out).
explain_decision(raw) ==
    LET d == standardize_sensor_data(raw)
        p == prediction(d) IN
    [chosen_source |-> ChosenNames[p],
     confidence |-> confidence(Scores(d)),
     reasoning |-> generate_reasoning(d, p),
     scores |-> Scores(d)]

-----------------------------------------------------------------------------
\* The supervisor's safety bounds: the defaults written in main.py (tenths of
\* a volt or ampere; degrees).

solar_min_voltage == 120
solar_min_current == 5
thermal_min_voltage == 50
thermal_max_temperature == 85
thermal_min_temperature == 40
battery_min_voltage == 105
battery_max_temperature == 45
battery_critical_voltage == 100
battery_critical_temp == 50
thermal_critical_temp == 90

check_solar_safety(d) ==
    /\ Get(d, "solar_voltage", 0) >= solar_min_voltage
    /\ Get(d, "solar_current", 0) >= solar_min_current

\* check_thermal_safety without the upper temperature limit.
check_thermal_safety_without_upper_limit(d) ==
    /\ Get(d, "thermal_voltage", 0) >= thermal_min_voltage
    /\ thermal_min_temperature <= Get(d, "thermal_temperature", 0)

check_thermal_safety(d) ==
    /\ Get(d, "thermal_voltage", 0) >= thermal_min_voltage
    /\ thermal_min_temperature <= Get(d, "thermal_temperature", 0)
    /\ Get(d, "thermal_temperature", 0) <= thermal_max_temperature

\* check_battery_safety taking a nominal 12.0 V for a missing voltage.
check_battery_safety_nominal_default(d) ==
    /\ Get(d, "battery_voltage", 120) >= battery_min_voltage
    /\ Get(d, "battery_temperature", 0) <= battery_max_temperature

check_battery_safety(d) ==
    /\ Get(d, "battery_voltage", 0) >= battery_min_voltage
    /\ Get(d, "battery_temperature", 0) <= battery_max_temperature

\* is_safe_to_switch: the check of the named source; False for any other name.
is_safe_to_switch(new_source, d) ==
    CASE new_source = "solar" -> check_solar_safety(d)
      [] new_source = "thermal" -> check_thermal_safety(d)
      [] new_source = "battery" -> check_battery_safety(d)
      [] OTHER -> FALSE

\* get_health_status with the first check alone deciding between good and
\* critical.
get_health_status_first_check_decides(d) ==
    LET health_checks == <<check_solar_safety(d), check_thermal_safety(d),
                           check_battery_safety(d)>> IN
    IF \A i \in 1..3 : health_checks[i] THEN "excellent"
    ELSE IF health_checks[1] THEN "good"
    ELSE "critical"

\* get_health_status: all() and any() over the three checks.
get_health_status(d) ==
    LET health_checks == <<check_solar_safety(d), check_thermal_safety(d),
                           check_battery_safety(d)>> IN
    IF \A i \in 1..3 : health_checks[i] THEN "excellent"
    ELSE IF \E i \in 1..3 : health_checks[i] THEN "good"
    ELSE "critical"

\* check_system_health's emergency_conditions list: (param, condition, threshold).
emergency_conditions ==
    << <<"battery_voltage", "low", battery_critical_voltage>>,
       <<"battery_temperature", "high", battery_critical_temp>>,
       <<"thermal_temperature", "high", thermal_critical_temp>> >>

\* The test with strict comparisons.
condition_holds_strictly(entry, d) ==
    LET value == Get(d, entry[1], 0) IN
    \/ entry[2] = "low" /\ value < entry[3]
    \/ entry[2] = "high" /\ value > entry[3]

\* The test check_system_health makes on one entry of the list.
condition_holds(entry, d) ==
    LET value == Get(d, entry[1], 0) IN
    \/ entry[2] = "low" /\ value <= entry[3]
    \/ entry[2] = "high" /\ value >= entry[3]

\* The parameters check_system_health calls handle_emergency for on a
\* reading, in the order of the list.
emergencies(d) ==
    LET held == SelectSeq(emergency_conditions, LAMBDA entry : condition_holds(entry, d)) IN
    [i \in 1..Len(held) |-> held[i][1]]

\* find_safest_source with solar tried before battery.
find_safest_source_solar_first(d) ==
    IF check_solar_safety(d) THEN "solar"
    ELSE IF check_battery_safety(d) THEN "battery"
    ELSE IF check_thermal_safety(d) THEN "thermal"
    ELSE ""

\* find_safest_source falling back to battery when no source passes.
find_safest_source_defaulting_to_battery(d) ==
    IF check_battery_safety(d) THEN "battery"
    ELSE IF check_solar_safety(d) THEN "solar"
    ELSE IF check_thermal_safety(d) THEN "thermal"
    ELSE "battery"

\* find_safest_source on the reading it takes: battery > solar > thermal,
\* None ("") when no source passes its check.
find_safest_source(d) ==
    IF check_battery_safety(d) THEN "battery"
    ELSE IF check_solar_safety(d) THEN "solar"
    ELSE IF check_thermal_safety(d) THEN "thermal"
    ELSE ""

\* The sources that pass their safety check on a reading.
PassingOn(d) == {s \in Sources : is_safe_to_switch(s, d)}

\* What a cycle has done so far: the result of its switch_source call (if
\* one was made), whether handle_emergency was entered, which sources passed
\* their check on the reading the latest find_safest_source took, and how
\* many emergency events log_emergency was given, and whether a call of the
\* DataLogger failed (the database could not be written; the DataLogger
\* logs the error and returns).
NewCycle ==
    [switch |-> "none", emergency |-> FALSE, passing |-> {}, logged |-> 0,
     log_failed |-> FALSE]

\* The readings get_all_readings can return in a supervisor cycle. The sensor
\* thread replaces latest_readings between any two reads, so each read draws
\* any reading. Values sit on and beside the thresholds the supervisor tests.
SupTelemetry ==
    [solar_voltage : {110, 130}, solar_current : {10},
     thermal_voltage : {60}, thermal_temperature : {60, 90},
     battery_voltage : {100, 101, 120}, battery_temperature : {25, 55},
     solar_irradiance : {0}, temperature : {20}, power_demand : {100},
     wind_speed : {0}, battery_level : {5, 85}, time_of_day : {12, 21}]

\* The SensorManager's sensors and fields of a reading, as far as its
\* callers are concerned: one field per sensor group.
FieldOrder == <<"solar_voltage", "thermal_temperature", "battery_voltage">>
Fields == {FieldOrder[i] : i \in 1..Len(FieldOrder)}

\* A dictionary with no key.
EmptyDict == [f \in {} |-> 0]

\* No SensorManager call in progress.
IdleReading == [op |-> "none", pc |-> "idle", readings |-> EmptyDict, call |-> 0,
                ret |-> EmptyDict]

SensorThreads == {"sensor", "ctl"}

\* The SensorManager after construction, monitoring not started.
SensorManagerIdle ==
    /\ latest_readings = EmptyDict
    /\ monitoring = FALSE
    /\ sensor_hardware = FALSE
    /\ sensor_call = [t \in SensorThreads |-> IdleReading]
    /\ reads = 0

\* No decision made.
NoDecision == [chosen_source |-> "", confidence |-> <<0, 1>>, reasoning |-> <<>>,
               scores |-> <<0, 0, 0>>]

\* No function applied. For the decision engine: the latest and the first
\* decision made on d, how many were made on d, and the source chosen by
\* the latest decision made on any telemetry.
NoProbe == [fn |-> "none", d |-> NoTelemetry, arg |-> "", ok |-> FALSE, out |-> "",
            decision |-> NoDecision, first |-> NoDecision, calls |-> 0, prev |-> ""]

-----------------------------------------------------------------------------
\* The PowerController on its own: one caller making any sequence of calls,
\* each after the one before has returned.

PCInit ==
    /\ hardware_available \in BOOLEAN
    /\ relay_states = InitialRelayStates
    /\ frame = [t \in Threads |-> IdleFrame]
    /\ running = FALSE
    /\ current_source = "battery"
    /\ sup_pc = "top"
    /\ sensor_data = NoTelemetry
    /\ optimal_source = ""
    /\ health_idx = 0
    /\ safe_source = ""
    /\ cycle = NewCycle
    /\ SensorManagerIdle
    /\ probe = NoProbe

CallSwitchSource ==
    /\ Returned("ctl")
    /\ \E from_source \in ArgNames, to_source \in ArgNames :
         switch_source("ctl", from_source, to_source)
    /\ UNCHANGED <<supvars, smvars, probe>>

CallEmergencySwitch ==
    /\ Returned("ctl")
    /\ \E safe \in SafeArgNames : emergency_switch("ctl", safe)
    /\ UNCHANGED <<supvars, smvars, probe>>

CallForceSource ==
    /\ Returned("ctl")
    /\ \E source \in ArgNames : force_source("ctl", source)
    /\ UNCHANGED <<supvars, smvars, probe>>

SwitchBreak == perform_switch_break("ctl") /\ UNCHANGED <<supvars, smvars, probe>>
SwitchMake == perform_switch_make("ctl") /\ UNCHANGED <<supvars, smvars, probe>>
EmergencyOff == emergency_off("ctl") /\ UNCHANGED <<supvars, smvars, probe>>
EmergencyActivate == emergency_activate("ctl") /\ UNCHANGED <<supvars, smvars, probe>>
ForceOff == force_off("ctl") /\ UNCHANGED <<supvars, smvars, probe>>
ForceActivate == force_activate("ctl") /\ UNCHANGED <<supvars, smvars, probe>>
ForceRevert == force_revert("ctl") /\ UNCHANGED <<supvars, smvars, probe>>

PCNext ==
    \/ CallSwitchSource
    \/ CallEmergencySwitch
    \/ CallForceSource
    \/ SwitchBreak
    \/ SwitchMake
    \/ EmergencyOff
    \/ EmergencyActivate
    \/ ForceOff
    \/ ForceActivate
    \/ ForceRevert

SpecPC == PCInit /\ [][PCNext]_vars

-----------------------------------------------------------------------------
\* The supervisor: control_loop of DualEnergySystem, on the control thread.

SupInit ==
    /\ hardware_available \in BOOLEAN
    /\ relay_states = InitialRelayStates
    /\ frame = [t \in Threads |-> IdleFrame]
    /\ running = TRUE
    /\ current_source = "battery"
    /\ sup_pc = "top"
    /\ sensor_data = NoTelemetry
    /\ optimal_source = ""
    /\ health_idx = 0
    /\ safe_source = ""
    /\ cycle = NewCycle
    /\ SensorManagerIdle
    /\ probe = NoProbe

\* log_system_state letting the failure of its database reach the caller:
\* the cycle is left for the loop's handler.
log_system_state_raising(switch_result, failed) ==
    /\ cycle' = [cycle EXCEPT !.switch = switch_result, !.log_failed = failed]
    /\ sup_pc' = IF failed THEN "backoff" ELSE "health"
    /\ health_idx' = IF failed THEN 0 ELSE 1

\* log_system_state at the end of the switching step, the cycle's
\* switch_source result being recorded with it: whether the record is
\* written or not, the call returns, update_model does nothing and
\* check_system_health comes next.
log_system_state(switch_result, failed) ==
    /\ cycle' = [cycle EXCEPT !.switch = switch_result, !.log_failed = failed]
    /\ sup_pc' = "health"
    /\ health_idx' = 1

\* The loop as `while True`: a cycle is started whatever running is.
control_loop_top_without_test ==
    /\ sup_pc = "top"
    /\ \E reading \in SupTelemetry :
         /\ sensor_data' = reading
         /\ optimal_source' = predict_optimal_source(reading)
         /\ sup_pc' = "switch"
    /\ UNCHANGED <<pcvars, running, current_source, health_idx, safe_source, cycle>>
    /\ UNCHANGED <<smvars, probe>>

\* The loop test, get_all_readings and predict_optimal_source.
control_loop_top ==
    /\ sup_pc = "top"
    /\ IF running
       THEN \E reading \in SupTelemetry :
              /\ sensor_data' = reading
              /\ optimal_source' = predict_optimal_source(reading)
              /\ sup_pc' = "switch"
       ELSE /\ sup_pc' = "exited"
            /\ UNCHANGED <<sensor_data, optimal_source>>
    /\ UNCHANGED <<pcvars, running, current_source, health_idx, safe_source, cycle>>
    /\ UNCHANGED <<smvars, probe>>

\* `if optimal_source != self.current_source: switch_energy_source(...)` up to
\* the call of switch_source, made only when the safety check passes.
switch_energy_source ==
    /\ sup_pc = "switch"
    /\ IF optimal_source # current_source
          /\ is_safe_to_switch(optimal_source, sensor_data)
       THEN /\ switch_source("ctl", current_source, optimal_source)
            /\ sup_pc' = "await_switch"
            /\ UNCHANGED <<health_idx, cycle>>
       ELSE /\ \E failed \in BOOLEAN : log_system_state(cycle.switch, failed)
            /\ UNCHANGED pcvars
    /\ UNCHANGED <<running, current_source, sensor_data, optimal_source, safe_source>>
    /\ UNCHANGED <<smvars, probe>>

\* switch_energy_source_return taking the new source whatever switch_source
\* returned.
switch_energy_source_return_ignoring_result ==
    /\ sup_pc = "await_switch"
    /\ frame["ctl"].op = "switch_source" /\ frame["ctl"].pc = "done"
    /\ current_source' = optimal_source
    /\ \E failed \in BOOLEAN : log_system_state(frame["ctl"].ret, failed)
    /\ frame' = [frame EXCEPT !["ctl"] = IdleFrame]
    /\ UNCHANGED <<hardware_available, relay_states, running, sensor_data,
                   optimal_source, safe_source>>
    /\ UNCHANGED <<smvars, probe>>

\* switch_source has returned: current_source follows only on success. Then
\* the state is logged (log_system_state swallows its errors) and the cycle
\* goes on to check_system_health.
switch_energy_source_return ==
    /\ sup_pc = "await_switch"
    /\ frame["ctl"].op = "switch_source" /\ frame["ctl"].pc = "done"
    /\ current_source' = IF frame["ctl"].ret = "True" THEN optimal_source
                         ELSE current_source
    /\ \E failed \in BOOLEAN : log_system_state(frame["ctl"].ret, failed)
    /\ frame' = [frame EXCEPT !["ctl"] = IdleFrame]
    /\ UNCHANGED <<hardware_available, relay_states, running, sensor_data,
                   optimal_source, safe_source>>
    /\ UNCHANGED <<smvars, probe>>

\* One round of check_system_health's loop over emergency_conditions. When
\* the condition holds handle_emergency runs: find_safest_source takes its
\* own reading, and emergency_switch is called when a safe source other than
\* the current one exists.
check_system_health ==
    /\ sup_pc = "health"
    /\ LET last == health_idx = Len(emergency_conditions) IN
       IF condition_holds(emergency_conditions[health_idx], sensor_data)
       THEN \E reading \in SupTelemetry, failed \in BOOLEAN :
              LET safe == find_safest_source(reading) IN
              /\ cycle' = [cycle EXCEPT
                    !.emergency = TRUE,
                    !.passing = PassingOn(reading),
                    !.logged = IF safe # "" /\ safe # current_source THEN @ ELSE @ + 1,
                    !.log_failed = IF safe # "" /\ safe # current_source THEN @
                                   ELSE @ \/ failed]
              /\ IF safe # "" /\ safe # current_source
                 THEN /\ emergency_switch("ctl", safe)
                      /\ safe_source' = safe
                      /\ sup_pc' = "await_emergency"
                      /\ UNCHANGED health_idx
                 ELSE /\ sup_pc' = IF last THEN "sleep" ELSE "health"
                      /\ health_idx' = IF last THEN 0 ELSE health_idx + 1
                      /\ UNCHANGED <<pcvars, safe_source>>
       ELSE /\ sup_pc' = IF last THEN "sleep" ELSE "health"
            /\ health_idx' = IF last THEN 0 ELSE health_idx + 1
            /\ UNCHANGED <<pcvars, safe_source, cycle>>
    /\ UNCHANGED <<running, current_source, sensor_data, optimal_source>>
    /\ UNCHANGED <<smvars, probe>>

\* emergency_switch has returned (it returns nothing): current_source is set
\* to the safe source, the emergency is logged (log_emergency returns whether
\* the event was written or not), the loop goes on.
handle_emergency_return ==
    /\ sup_pc = "await_emergency"
    /\ frame["ctl"].op = "emergency_switch" /\ frame["ctl"].pc = "done"
    /\ current_source' = safe_source
    /\ safe_source' = ""
    /\ frame' = [frame EXCEPT !["ctl"] = IdleFrame]
    /\ sup_pc' = IF health_idx = Len(emergency_conditions) THEN "sleep" ELSE "health"
    /\ health_idx' = IF health_idx = Len(emergency_conditions) THEN 0 ELSE health_idx + 1
    /\ \E failed \in BOOLEAN :
         cycle' = [cycle EXCEPT !.logged = @ + 1, !.log_failed = @ \/ failed]
    /\ UNCHANGED <<hardware_available, relay_states, running, sensor_data,
                   optimal_source>>
    /\ UNCHANGED <<smvars, probe>>

\* The wait at the end of the cycle; the loop body's locals end with it.
control_loop_sleep ==
    /\ sup_pc = "sleep"
    /\ sup_pc' = "top"
    /\ sensor_data' = NoTelemetry
    /\ optimal_source' = ""
    /\ cycle' = NewCycle
    /\ UNCHANGED <<pcvars, running, current_source, health_idx, safe_source>>
    /\ UNCHANGED <<smvars, probe>>

SupNext ==
    \/ control_loop_top
    \/ switch_energy_source
    \/ switch_energy_source_return
    \/ check_system_health
    \/ handle_emergency_return
    \/ control_loop_sleep
    \/ SwitchBreak
    \/ SwitchMake
    \/ EmergencyOff
    \/ EmergencyActivate

SpecSup == SupInit /\ [][SupNext]_vars

-----------------------------------------------------------------------------
\* Claims about the PowerController on its own (under SpecPC).

Call == frame["ctl"]

\* C1: after any sequence of completed PowerController operations, starting
\* with battery alone energized, exactly one source is energized.
C1_ExactlyOneAfterCompletedOperation ==
    Returned("ctl") => Cardinality(Energized) = 1

\* C2: a switch_source(from, to) with from # to that returns success leaves
\* exactly one source energized, and it is `to`, whatever the relay state it
\* started from.
C2_SuccessfulSwitchEnergizesOnlyTarget ==
    (Call.op = "switch_source" /\ Call.pc = "done" /\ Call.src # Call.dst
        /\ Call.ret = "True")
    => relay_states = Only(Call.dst)

\* C3: during switch_source(from, to) with from # to, `from` is de-energized
\* before `to` is energized: once the break step is over, and so whenever the
\* make step runs, `from` is not energized.
C3_BreakBeforeMake ==
    (Call.op = "switch_source" /\ Call.pc = "make" /\ Call.src \in Sources)
    => ~relay_states[Call.src]

\* C4: switch_source(X, X) returns success and leaves relay_states as it was,
\* for every name X and every relay state: a step that completes a
\* same-source call changes no relay and returns True.
C4_SameSourceIsNoOp ==
    [][(frame' # frame /\ frame'["ctl"].op = "switch_source"
          /\ frame'["ctl"].src = frame'["ctl"].dst /\ frame'["ctl"].pc = "done")
       => (relay_states' = relay_states /\ frame'["ctl"].ret = "True")]_vars

\* C4, the case reached: a same-source call has returned while two sources
\* were energized.
C4_Witness ==
    /\ Call.op = "switch_source" /\ Call.pc = "done" /\ Call.src = Call.dst
    /\ Call.src \in Sources /\ Call.ret = "True"
    /\ Cardinality(Energized) = 2

\* A failure of the operation that reaches its caller: a False return value
\* or an exception that leaves the operation.
SurfacedToCaller(f) == f.ret = "False" \/ f.exc = "propagated"

\* C5: emergency_switch(to) ends with exactly one source energized, unless
\* the activation of the target fails, and then a fatal condition reaches the
\* caller; it never ends silently with every relay off.
C5_EmergencySwitchNeverSilentlyOff ==
    (Call.op = "emergency_switch" /\ Call.pc = "done" /\ Call.dst \in Sources)
    => \/ Cardinality(Energized) = 1
       \/ (Call.act = "failed" /\ SurfacedToCaller(Call))

-----------------------------------------------------------------------------
\* Claims about the supervisor's cycle (under SpecSup).

EndOfCycle == sup_pc = "sleep"

\* C8: when a normal switch fails because the target relay cannot be
\* activated, the fault is recovered by falling back to battery through the
\* emergency procedure: the cycle does not end with no source energized.
C8_FailedSwitchIsRecovered ==
    (EndOfCycle /\ cycle.switch = "False") => Energized # {}

\* The condition under which the normal path calls switch_source.
SwitchWanted ==
    optimal_source # current_source /\ is_safe_to_switch(optimal_source, sensor_data)

\* C9: in the normal path of a cycle current_source changes only when the
\* chosen source differs from it, passes its safety check on the cycle's
\* telemetry and switch_source returned success, and it becomes the chosen
\* source; when the safety check fails no switch_source call is made; when the
\* switch fails current_source is unchanged.
C9_NormalPathCurrentSource ==
    [][/\ (sup_pc = "switch" /\ ~SwitchWanted)
            => (frame' = frame /\ relay_states' = relay_states
                  /\ current_source' = current_source)
       /\ (sup_pc = "switch" /\ SwitchWanted /\ sup_pc' # sup_pc)
            => (frame'["ctl"].op = "switch_source"
                  /\ frame'["ctl"].src = current_source
                  /\ frame'["ctl"].dst = optimal_source)
       /\ (sup_pc \in {"switch", "await_switch"} /\ current_source' # current_source)
            => (SwitchWanted /\ frame["ctl"].op = "switch_source"
                  /\ frame["ctl"].pc = "done" /\ frame["ctl"].ret = "True"
                  /\ current_source' = optimal_source)
       /\ (sup_pc = "await_switch" /\ sup_pc' # sup_pc)
            => current_source' = (IF frame["ctl"].ret = "True" THEN optimal_source
                                  ELSE current_source)
      ]_vars

\* C9, the case reached: a cycle whose switch succeeded and moved
\* current_source from battery to solar.
C9_Witness ==
    /\ sup_pc = "health" /\ cycle.switch = "True"
    /\ current_source = "solar" /\ optimal_source = "solar"
    /\ relay_states = Only("solar")

\* C10 as claimed: the emergency path is entered in a cycle iff the battery
\* voltage is below, or the battery temperature above, or the thermal
\* temperature above its critical threshold on the cycle's telemetry.
C10_EmergencyIffBeyondThreshold ==
    EndOfCycle =>
      (cycle.emergency <=>
         \/ Get(sensor_data, "battery_voltage", 0) < battery_critical_voltage
         \/ Get(sensor_data, "battery_temperature", 0) > battery_critical_temp
         \/ Get(sensor_data, "thermal_temperature", 0) > thermal_critical_temp)

\* C10 as amended: the emergency path is entered in a cycle iff the battery
\* voltage is at or below, or the battery temperature at or above, or the
\* thermal temperature at or above its critical threshold on the cycle's
\* telemetry.
C10_EmergencyIffAtOrBeyondThreshold ==
    EndOfCycle =>
      (cycle.emergency <=>
         \/ Get(sensor_data, "battery_voltage", 0) <= battery_critical_voltage
         \/ Get(sensor_data, "battery_temperature", 0) >= battery_critical_temp
         \/ Get(sensor_data, "thermal_temperature", 0) >= thermal_critical_temp)

\* C10, the case reached: a cycle entered the emergency path on a battery
\* voltage equal to the critical threshold, nothing else being critical.
C10_Witness ==
    /\ EndOfCycle /\ cycle.emergency
    /\ Get(sensor_data, "battery_voltage", 0) = battery_critical_voltage
    /\ Get(sensor_data, "battery_temperature", 0) < battery_critical_temp
    /\ Get(sensor_data, "thermal_temperature", 0) < thermal_critical_temp

\* ---------------------------------------------------------------------
\* Emergency handling (SpecSup)

\* handle_emergency is not in progress: it has returned, or was not entered.
HandlingDone == sup_pc \in {"health", "sleep"}

\* The first of battery, solar, thermal that is in a set of sources.
HighestPriority(S) ==
    IF "battery" \in S THEN "battery"
    ELSE IF "solar" \in S THEN "solar"
    ELSE "thermal"

\* C11: once an emergency has been handled in a cycle and some source passed
\* its safety check on the reading the handling examined, current_source is
\* the highest-priority passing source (battery, then solar, then thermal),
\* whatever the decision engine chose for the cycle.
C11_EmergencyEndsOnSafestSource ==
    (cycle.emergency /\ HandlingDone /\ cycle.passing # {})
        => current_source = HighestPriority(cycle.passing)

\* C11, the case reached: the decision engine chose solar and the cycle
\* switched to it, then the emergency handling found battery and solar both
\* passing and the cycle ends on battery.
C11_Witness ==
    /\ EndOfCycle /\ cycle.emergency
    /\ optimal_source = "solar" /\ cycle.switch = "True"
    /\ cycle.passing = {"battery", "solar"}
    /\ current_source = "battery"

\* An emergency condition, as the claim words it, holds on a reading.
BeyondThreshold(d) ==
    \/ Get(d, "battery_voltage", 0) < battery_critical_voltage
    \/ Get(d, "battery_temperature", 0) > battery_critical_temp
    \/ Get(d, "thermal_temperature", 0) > thermal_critical_temp

\* C12 as claimed: a cycle whose telemetry is beyond an emergency threshold
\* makes no switch_source call.
C12_NoSwitchInEmergencyCycle ==
    (EndOfCycle /\ BeyondThreshold(sensor_data)) => cycle.switch = "none"

\* C13: a handling of an emergency that finds no source passing its safety
\* check leaves current_source, relay_states and the PowerController alone,
\* and still emits its emergency event.
C13_NoSafeSourceKeepsLastSource ==
    [][(/\ sup_pc = "health"
        /\ condition_holds(emergency_conditions[health_idx], sensor_data)
        /\ cycle'.passing = {})
       => (/\ current_source' = current_source
           /\ relay_states' = relay_states
           /\ frame' = frame
           /\ cycle'.emergency
           /\ cycle'.logged = cycle.logged + 1)]_vars

\* C13, the case reached: the cycle switched to solar, the emergency handling
\* found no source passing, the event was emitted and the cycle ends on solar.
C13_Witness ==
    /\ EndOfCycle /\ cycle.emergency
    /\ cycle.passing = {} /\ cycle.logged = 1
    /\ cycle.switch = "True" /\ current_source = "solar"
    /\ Energized = {"solar"}

-----------------------------------------------------------------------------
\* The safety checks and the health status as functions of a reading: a
\* reading is drawn, then one of the functions is applied to it.

\* Readings on either side of every limit of the safety checks, and one
\* reading with no sensor key at all.
SafetyTelemetry ==
    [solar_voltage : {119, 120}, solar_current : {4, 5},
     thermal_voltage : {49, 50}, thermal_temperature : {39, 40, 85, 86},
     battery_voltage : {104, 105}, battery_temperature : {45, 46}]
    \cup {NoTelemetry}
    \cup [solar_voltage : {119, 120}, solar_current : {4, 5},
          thermal_voltage : {49, 50}, thermal_temperature : {39, 40, 85, 86},
          battery_temperature : {45, 46}]

SafetyInit ==
    /\ hardware_available = FALSE
    /\ relay_states = InitialRelayStates
    /\ frame = [t \in Threads |-> IdleFrame]
    /\ running = FALSE
    /\ current_source = "battery"
    /\ sup_pc = "top"
    /\ sensor_data = NoTelemetry
    /\ optimal_source = ""
    /\ health_idx = 0
    /\ safe_source = ""
    /\ cycle = NewCycle
    /\ SensorManagerIdle
    /\ \E d \in SafetyTelemetry : probe = [NoProbe EXCEPT !.d = d]

ApplyIsSafeToSwitch ==
    /\ probe.fn = "none"
    /\ \E new_source \in SafeArgNames :
         probe' = [probe EXCEPT !.fn = "is_safe_to_switch", !.arg = new_source,
                                !.ok = is_safe_to_switch(new_source, probe.d)]
    /\ UNCHANGED <<pcvars, supvars, smvars>>

ApplyGetHealthStatus ==
    /\ probe.fn = "none"
    /\ probe' = [probe EXCEPT !.fn = "get_health_status",
                              !.out = get_health_status(probe.d)]
    /\ UNCHANGED <<pcvars, supvars, smvars>>

\* check_system_health's tests on the reading: whether handle_emergency is
\* called, and for which parameter first.
ApplyCheckSystemHealth ==
    /\ probe.fn = "none"
    /\ probe' = [probe EXCEPT !.fn = "check_system_health",
                              !.ok = emergencies(probe.d) # <<>>,
                              !.arg = IF emergencies(probe.d) # <<>>
                                      THEN emergencies(probe.d)[1] ELSE ""]
    /\ UNCHANGED <<pcvars, supvars, smvars>>

SafetyNext ==
    \/ ApplyIsSafeToSwitch
    \/ ApplyGetHealthStatus
    \/ ApplyCheckSystemHealth

SpecSafety == SafetyInit /\ [][SafetyNext]_vars

\* C14: is_safe_to_switch answers, for solar, voltage >= minimum and
\* current >= minimum; for thermal, voltage >= minimum and minimum <=
\* temperature <= maximum; for battery, voltage >= minimum and temperature
\* <= maximum; for any other name, never safe.
C14_SafetyChecks ==
    probe.fn = "is_safe_to_switch" =>
      LET d == probe.d IN
      probe.ok <=>
        \/ /\ probe.arg = "solar"
           /\ Get(d, "solar_voltage", 0) >= solar_min_voltage
           /\ Get(d, "solar_current", 0) >= solar_min_current
        \/ /\ probe.arg = "thermal"
           /\ Get(d, "thermal_voltage", 0) >= thermal_min_voltage
           /\ Get(d, "thermal_temperature", 0) >= thermal_min_temperature
           /\ Get(d, "thermal_temperature", 0) <= thermal_max_temperature
        \/ /\ probe.arg = "battery"
           /\ Get(d, "battery_voltage", 0) >= battery_min_voltage
           /\ Get(d, "battery_temperature", 0) <= battery_max_temperature

\* C14, the case reached: thermal was checked on a reading whose thermal
\* temperature is one degree above the maximum, and found unsafe.
C14_Witness ==
    /\ probe.fn = "is_safe_to_switch" /\ probe.arg = "thermal"
    /\ Get(probe.d, "thermal_voltage", 0) >= thermal_min_voltage
    /\ Get(probe.d, "thermal_temperature", 0) = thermal_max_temperature + 1
    /\ ~probe.ok

\* C15: get_health_status is 'excellent' iff all three safety checks pass,
\* 'good' iff at least one but not all pass, 'critical' iff none passes.
C15_HealthStatus ==
    probe.fn = "get_health_status" =>
      LET passed == Cardinality(PassingOn(probe.d)) IN
      /\ probe.out = "excellent" <=> passed = 3
      /\ probe.out = "good" <=> passed \in {1, 2}
      /\ probe.out = "critical" <=> passed = 0

\* C15, the case reached: only the battery check passes and the status is
\* 'good'.
C15_Witness ==
    /\ probe.fn = "get_health_status"
    /\ PassingOn(probe.d) = {"battery"}
    /\ probe.out = "good"

-----------------------------------------------------------------------------
\* The control loop with the failures of its steps, the user's interrupt and
\* shutdown (start_system, control_loop, shutdown), on the main thread.

\* The loop is in its while statement: it has neither found running false
\* nor been left through an interrupt.
LoopAlive == sup_pc \notin {"exited", "interrupted", "await_shutdown", "shutdown_done"}

\* A step of the try body raises an Exception: get_all_readings or
\* predict_optimal_source (at the top), switch_energy_source,
\* log_system_state's argument, update_model or check_system_health. The
\* PowerController's operations catch their own. The handler logs the error
\* and the body's locals are gone.
control_loop_raises ==
    /\ sup_pc \in {"top", "switch", "health"}
    /\ sup_pc = "top" => running
    /\ sup_pc' = "backoff"
    /\ sensor_data' = NoTelemetry
    /\ optimal_source' = ""
    /\ health_idx' = 0
    /\ cycle' = NewCycle
    /\ UNCHANGED <<pcvars, running, current_source, safe_source, smvars, probe>>

\* The handler of control_loop_raises that leaves the loop instead, as if
\* the try statement were around the while statement.
control_loop_backoff_leaving_loop ==
    /\ sup_pc = "backoff"
    /\ sup_pc' = "exited"
    /\ UNCHANGED <<pcvars, running, current_source, sensor_data, optimal_source,
                   health_idx, safe_source, cycle, smvars, probe>>

\* The handler's sleep(1); the loop test comes next.
control_loop_backoff ==
    /\ sup_pc = "backoff"
    /\ sup_pc' = "top"
    /\ UNCHANGED <<pcvars, running, current_source, sensor_data, optimal_source,
                   health_idx, safe_source, cycle, smvars, probe>>

\* KeyboardInterrupt, delivered to the main thread between any two steps of
\* the loop. No "except Exception" catches it: the PowerController call in
\* progress, if any, is abandoned where it stands, and control_loop is left
\* for start_system's handler.
keyboard_interrupt ==
    /\ LoopAlive
    /\ sup_pc' = "interrupted"
    /\ frame' = [frame EXCEPT !["ctl"] = IdleFrame]
    /\ sensor_data' = NoTelemetry
    /\ optimal_source' = ""
    /\ health_idx' = 0
    /\ safe_source' = ""
    /\ cycle' = NewCycle
    /\ UNCHANGED <<hardware_available, relay_states, running, current_source,
                   smvars, probe>>

\* shutdown, up to its switch_source(self.current_source, 'battery') call.
shutdown ==
    /\ sup_pc = "interrupted"
    /\ running' = FALSE
    /\ switch_source("ctl", current_source, "battery")
    /\ sup_pc' = "await_shutdown"
    /\ UNCHANGED <<current_source, sensor_data, optimal_source, health_idx,
                   safe_source, cycle, smvars, probe>>

\* shutdown after switch_source has returned: the result is dropped, the
\* logger is closed.
shutdown_return ==
    /\ sup_pc = "await_shutdown"
    /\ frame["ctl"].op = "switch_source" /\ frame["ctl"].pc = "done"
    /\ sup_pc' = "shutdown_done"
    /\ frame' = [frame EXCEPT !["ctl"] = IdleFrame]
    /\ UNCHANGED <<hardware_available, relay_states, running, current_source,
                   sensor_data, optimal_source, health_idx, safe_source, cycle,
                   smvars, probe>>

LoopNext ==
    \/ control_loop_top
    \/ switch_energy_source
    \/ switch_energy_source_return
    \/ check_system_health
    \/ handle_emergency_return
    \/ control_loop_sleep
    \/ control_loop_raises
    \/ control_loop_backoff
    \/ keyboard_interrupt
    \/ shutdown
    \/ shutdown_return
    \/ SwitchBreak
    \/ SwitchMake
    \/ EmergencyOff
    \/ EmergencyActivate

\* The main thread keeps running: its sleeps end and its loop test is made.
SpecLoop ==
    /\ SupInit
    /\ [][LoopNext]_vars
    /\ WF_vars(control_loop_backoff)
    /\ WF_vars(control_loop_top)

\* C16: a step of a cycle that raises sends the loop to its backoff and from
\* there to the loop test of another cycle, which is always reached unless a
\* shutdown is requested; the loop is left only by a shutdown request (the
\* user's interrupt) or by the loop test finding running false.
C16_FailureNeverStopsLoop ==
    /\ [][(sup_pc = "backoff" /\ sup_pc' # "backoff")
             => sup_pc' \in {"top", "interrupted"}]_vars
    /\ [][(LoopAlive /\ ~LoopAlive')
             => (sup_pc' = "interrupted" \/ ~running)]_vars
    /\ (sup_pc = "backoff") ~> (sup_pc = "top" \/ ~LoopAlive)

\* C16, the case reached: a step has raised in a cycle that came after a
\* switch to solar, the loop is in its backoff and still running.
C16_Witness ==
    /\ sup_pc = "backoff" /\ running
    /\ current_source = "solar"

\* C17 as claimed: once shutdown has completed (the loop has stopped before
\* it), battery is energized and no other source is.
C17_ShutdownEndsOnBattery ==
    sup_pc = "shutdown_done" => Energized = {"battery"}

\* C20 as claimed (SpecSup): the emergency choice of the safest source is
\* evaluated on the cycle's telemetry snapshot: the sources found passing by
\* the emergency handling are those that pass on sensor_data.
C20_EmergencyChoiceOnCycleSnapshot ==
    (cycle.emergency /\ sup_pc \in {"health", "sleep", "await_emergency"})
        => cycle.passing = PassingOn(sensor_data)

-----------------------------------------------------------------------------
\* Two threads calling into the one PowerController, in simulation mode (no
\* GPIO fault): the control thread switches away from the source that is
\* energized when it calls, or makes an emergency switch; the dashboard
\* thread, which start_system hands the system to, forces a source. Each
\* thread makes its next call after its previous one has returned.

ConcInit ==
    /\ hardware_available = FALSE
    /\ relay_states = InitialRelayStates
    /\ frame = [t \in Threads |-> IdleFrame]
    /\ running = TRUE
    /\ current_source = "battery"
    /\ sup_pc = "top"
    /\ sensor_data = NoTelemetry
    /\ optimal_source = ""
    /\ health_idx = 0
    /\ safe_source = ""
    /\ cycle = NewCycle
    /\ SensorManagerIdle
    /\ probe = NoProbe

CtlSwitchSource ==
    /\ Returned("ctl")
    /\ \E from_source \in Sources, to_source \in Sources :
         /\ Energized = {from_source}
         /\ switch_source("ctl", from_source, to_source)
    /\ UNCHANGED <<supvars, smvars, probe>>

CtlEmergencySwitch ==
    /\ Returned("ctl")
    /\ \E safe \in Sources : emergency_switch("ctl", safe)
    /\ UNCHANGED <<supvars, smvars, probe>>

WebForceSource ==
    /\ Returned("web")
    /\ \E source \in ArgNames : force_source("web", source)
    /\ UNCHANGED <<supvars, smvars, probe>>

WebForceOff == force_off("web") /\ UNCHANGED <<supvars, smvars, probe>>
WebForceActivate == force_activate("web") /\ UNCHANGED <<supvars, smvars, probe>>
WebForceRevert == force_revert("web") /\ UNCHANGED <<supvars, smvars, probe>>

ConcNext ==
    \/ CtlSwitchSource
    \/ CtlEmergencySwitch
    \/ SwitchBreak
    \/ SwitchMake
    \/ EmergencyOff
    \/ EmergencyActivate
    \/ WebForceSource
    \/ WebForceOff
    \/ WebForceActivate
    \/ WebForceRevert

SpecConc == ConcInit /\ [][ConcNext]_vars

\* C18 as claimed: the operations of the two threads are serialized, so that
\* no interleaving of them ends with zero or two sources energized: whenever
\* both threads have returned, exactly one source is energized.
C18_NoInterleavingEndsOffOrDouble ==
    (Returned("ctl") /\ Returned("web")) => Cardinality(Energized) = 1

-----------------------------------------------------------------------------
\* The SensorManager: the monitoring thread publishing readings and the
\* control thread calling get_all_readings. The value of a field is the
\* number of the read_all_sensors call that produced it, so that a reading
\* tells which call or calls it comes from.

\* How many read_all_sensors calls a behaviour makes at most.
MaxReads == 3

SensorInit ==
    /\ hardware_available = FALSE
    /\ relay_states = InitialRelayStates
    /\ frame = [t \in Threads |-> IdleFrame]
    /\ running = TRUE
    /\ current_source = "battery"
    /\ sup_pc = "top"
    /\ sensor_data = NoTelemetry
    /\ optimal_source = ""
    /\ health_idx = 0
    /\ safe_source = ""
    /\ cycle = NewCycle
    /\ latest_readings = EmptyDict
    /\ monitoring = FALSE
    /\ sensor_hardware \in BOOLEAN
    /\ sensor_call = [t \in SensorThreads |-> IdleReading]
    /\ reads = 0
    /\ probe = NoProbe

\* The reading a complete read_all_sensors call number k returns.
CompleteReading(k) == [f \in Fields |-> k]

\* d with key f set to v (readings[f] = v).
SetItem(d, f, v) == [g \in DOMAIN d \cup {f} |-> IF g = f THEN v ELSE d[g]]

\* start_monitoring: sets the flag and starts the monitoring thread.
start_monitoring ==
    /\ ~monitoring
    /\ sensor_call["sensor"].pc = "idle"
    /\ monitoring' = TRUE
    /\ sensor_call' = [sensor_call EXCEPT !["sensor"].op = "_monitoring_loop",
                                          !["sensor"].pc = "loop"]
    /\ UNCHANGED <<latest_readings, sensor_hardware, reads, pcvars, supvars, probe>>

\* stop_monitoring: clears the flag.
stop_monitoring ==
    /\ monitoring
    /\ monitoring' = FALSE
    /\ UNCHANGED <<latest_readings, sensor_hardware, sensor_call, reads, pcvars,
                   supvars, probe>>

\* _monitoring_loop's loop test, and the start of its read_all_sensors call.
monitoring_loop_test ==
    /\ sensor_call["sensor"].pc = "loop"
    /\ IF monitoring
       THEN /\ reads < MaxReads
            /\ reads' = reads + 1
            /\ sensor_call' = [sensor_call EXCEPT !["sensor"].pc = "read",
                                  !["sensor"].call = reads + 1,
                                  !["sensor"].readings = EmptyDict]
       ELSE /\ sensor_call' = [sensor_call EXCEPT !["sensor"].pc = "stopped"]
            /\ UNCHANGED reads
    /\ UNCHANGED <<latest_readings, monitoring, sensor_hardware, pcvars, supvars, probe>>

\* read_sensor building the dictionary the readers see: each field is also
\* written into latest_readings as it is read.
read_sensor_in_place(t) ==
    /\ sensor_call[t].pc = "read"
    /\ LET c == sensor_call[t]
           n == Cardinality(DOMAIN c.readings) IN
       IF sensor_hardware
       THEN /\ sensor_call' = [sensor_call EXCEPT
                  ![t].readings = SetItem(c.readings, FieldOrder[n + 1], c.call),
                  ![t].pc = IF n + 1 = Len(FieldOrder) THEN "publish" ELSE "read"]
            /\ latest_readings' = SetItem(latest_readings, FieldOrder[n + 1], c.call)
       ELSE /\ sensor_call' = [sensor_call EXCEPT
                  ![t].readings = CompleteReading(c.call), ![t].pc = "publish"]
            /\ latest_readings' = CompleteReading(c.call)
    /\ UNCHANGED <<monitoring, sensor_hardware, reads, pcvars, supvars, probe>>

\* read_all_sensors, one step: _read_hardware_sensors adds the next field
\* to its local dictionary; _read_simulated_sensors builds its dictionary
\* in one expression.
read_sensor(t) ==
    /\ sensor_call[t].pc = "read"
    /\ LET c == sensor_call[t]
           n == Cardinality(DOMAIN c.readings) IN
       IF sensor_hardware
       THEN sensor_call' = [sensor_call EXCEPT
                  ![t].readings = SetItem(c.readings, FieldOrder[n + 1], c.call),
                  ![t].pc = IF n + 1 = Len(FieldOrder) THEN "publish" ELSE "read"]
       ELSE sensor_call' = [sensor_call EXCEPT
                  ![t].readings = CompleteReading(c.call), ![t].pc = "publish"]
    /\ UNCHANGED <<latest_readings, monitoring, sensor_hardware, reads, pcvars,
                   supvars, probe>>

\* _read_hardware_sensors: a sensor read raises; the local dictionary is
\* replaced by what _read_simulated_sensors returns.
read_sensor_fails(t) ==
    /\ sensor_call[t].pc = "read"
    /\ sensor_hardware
    /\ sensor_call' = [sensor_call EXCEPT
          ![t].readings = CompleteReading(sensor_call[t].call), ![t].pc = "publish"]
    /\ UNCHANGED <<latest_readings, monitoring, sensor_hardware, reads, pcvars,
                   supvars, probe>>

\* self.latest_readings = readings, by either thread: the monitoring loop
\* goes to its sleep, get_all_readings to its copy.
publish_readings(t) ==
    /\ sensor_call[t].pc = "publish"
    /\ latest_readings' = sensor_call[t].readings
    /\ sensor_call' = [sensor_call EXCEPT
          ![t].pc = IF t = "sensor" THEN "sleep" ELSE "copy"]
    /\ UNCHANGED <<monitoring, sensor_hardware, reads, pcvars, supvars, probe>>

\* The monitoring loop's sleep between two readings.
monitoring_sleep ==
    /\ sensor_call["sensor"].pc = "sleep"
    /\ sensor_call' = [sensor_call EXCEPT !["sensor"].pc = "loop"]
    /\ UNCHANGED <<latest_readings, monitoring, sensor_hardware, reads, pcvars,
                   supvars, probe>>

\* get_all_readings, up to its test: with no reading yet it reads the
\* sensors itself.
get_all_readings ==
    /\ sensor_call["ctl"].pc \in {"idle", "done"}
    /\ IF latest_readings = EmptyDict
       THEN /\ reads < MaxReads
            /\ reads' = reads + 1
            /\ sensor_call' = [sensor_call EXCEPT !["ctl"] =
                  [IdleReading EXCEPT !.op = "get_all_readings", !.pc = "read",
                                      !.call = reads + 1]]
       ELSE /\ sensor_call' = [sensor_call EXCEPT !["ctl"] =
                  [IdleReading EXCEPT !.op = "get_all_readings", !.pc = "copy"]]
            /\ UNCHANGED reads
    /\ UNCHANGED <<latest_readings, monitoring, sensor_hardware, pcvars, supvars, probe>>

\* return self.latest_readings.copy()
get_all_readings_copy ==
    /\ sensor_call["ctl"].pc = "copy"
    /\ sensor_call' = [sensor_call EXCEPT !["ctl"].ret = latest_readings,
                                          !["ctl"].pc = "done"]
    /\ UNCHANGED <<latest_readings, monitoring, sensor_hardware, reads, pcvars,
                   supvars, probe>>

SensorRead == \E t \in SensorThreads : read_sensor(t)
SensorReadFails == \E t \in SensorThreads : read_sensor_fails(t)
PublishReadings == \E t \in SensorThreads : publish_readings(t)

SensorNext ==
    \/ start_monitoring
    \/ stop_monitoring
    \/ monitoring_loop_test
    \/ SensorRead
    \/ SensorReadFails
    \/ PublishReadings
    \/ monitoring_sleep
    \/ get_all_readings
    \/ get_all_readings_copy

SpecSensor == SensorInit /\ [][SensorNext]_vars

\* A reading with every field, all of them from one read_all_sensors call.
FromSingleRead(r) ==
    /\ DOMAIN r = Fields
    /\ \E k \in 1..reads : \A f \in Fields : r[f] = k

\* C19: what get_all_readings returns is a complete reading produced by a
\* single read_all_sensors call, never a mixture of two calls nor a partly
\* filled one.
C19_ReadingsAreComplete ==
    sensor_call["ctl"].pc = "done" => FromSingleRead(sensor_call["ctl"].ret)

\* C19, the case reached: get_all_readings returned the reading of the
\* first call while the monitoring thread was part-way through reading the
\* hardware sensors for a later one.
C19_Witness ==
    /\ sensor_call["ctl"].pc = "done"
    /\ sensor_call["ctl"].ret = CompleteReading(1)
    /\ sensor_hardware
    /\ sensor_call["sensor"].pc = "read"
    /\ sensor_call["sensor"].call > 1
    /\ Cardinality(DOMAIN sensor_call["sensor"].readings) \in {1, 2}

-----------------------------------------------------------------------------
\* The decision engine (EnergyOptimizer) as its callers use it: a telemetry
\* mapping is drawn; explain_decision is applied to it, before and after
\* predict_optimal_source and update_model have been applied to other
\* telemetry.

\* Readings at, below and above the thresholds of the scoring rules.
DecideTelemetry ==
    [solar_irradiance : {0, 100, 300, 600, 900},
     temperature : {20, 25, 30, 35},
     battery_level : {5, 10, 20, 50, 80, 85},
     power_demand : {150, 200},
     wind_speed : {5, 10},
     time_of_day : {6, 18, 21},
     weather_condition : {"clear", "Overcast", "light rain", "fog"}]

\* One reading with every key and every alias, the alias of a signal
\* differing from its direct key.
AliasedReading ==
    [solar_irradiance |-> 900, solar_voltage |-> 20,
     temperature |-> 20, ambient_temperature |-> 35,
     battery_level |-> 85, battery_soc |-> 5,
     power_demand |-> 100, load_demand |-> 200,
     wind_speed |-> 10,
     time_of_day |-> 21, hour_of_day |-> 12,
     weather_condition |-> "light rain"]

\* The mapping d without the keys outside K.
Restrict(d, K) == [k \in DOMAIN d \cap K |-> d[k]]

\* The mapping d with key k set to v.
WithKey(d, k, v) == [g \in DOMAIN d \cup {k} |-> IF g = k THEN v ELSE d[g]]

\* AliasedReading with any of its keys missing.
PartialTelemetry == {Restrict(AliasedReading, K) : K \in SUBSET DOMAIN AliasedReading}

\* The telemetry of the other invocations.
OtherTelemetry ==
    {[solar_irradiance |-> 900, time_of_day |-> 12],
     [temperature |-> 35, time_of_day |-> 21],
     [battery_level |-> 85, time_of_day |-> 21]}

\* The telemetry of the two decision scenarios: noon, and night.
ScenarioA ==
    [solar_irradiance |-> 900, temperature |-> 28, battery_level |-> 85,
     power_demand |-> 140, time_of_day |-> 12, wind_speed |-> 5,
     weather_condition |-> "clear"]
ScenarioB ==
    [solar_irradiance |-> 0, temperature |-> 20, battery_level |-> 75,
     power_demand |-> 100, time_of_day |-> 21, weather_condition |-> "clear_night"]

\* simulate_day_cycle's sensor_data for an hour and its conditions.
DaySensorData(hour, irradiance, temperature, level, demand) ==
    [time_of_day |-> hour, humidity |-> 50, wind_speed |-> 5,
     weather_condition |-> IF irradiance > 0 THEN "clear" ELSE "clear_night",
     solar_irradiance |-> irradiance, temperature |-> temperature,
     battery_level |-> level, power_demand |-> demand]

\* simulate_day_cycle's scenarios.
Afternoon == DaySensorData(15, 750, 32, 90, 160)
Evening == DaySensorData(18, 300, 25, 80, 180)
DayCycle ==
    {DaySensorData(6, 200, 18, 70, 80), DaySensorData(9, 600, 22, 65, 120),
     DaySensorData(12, 900, 28, 85, 140), Afternoon, Evening,
     DaySensorData(21, 0, 20, 75, 100), DaySensorData(24, 0, 15, 65, 60)}

\* How many times explain_decision is applied to the drawn telemetry.
MaxCalls == 2

DecideInit ==
    /\ hardware_available = FALSE
    /\ relay_states = InitialRelayStates
    /\ frame = [t \in Threads |-> IdleFrame]
    /\ running = FALSE
    /\ current_source = "battery"
    /\ sup_pc = "top"
    /\ sensor_data = NoTelemetry
    /\ optimal_source = ""
    /\ health_idx = 0
    /\ safe_source = ""
    /\ cycle = NewCycle
    /\ SensorManagerIdle
    /\ \E d \in DecideTelemetry \cup PartialTelemetry \cup DayCycle \cup {ScenarioA, ScenarioB} :
         probe = [NoProbe EXCEPT !.d = d]

\* explain_decision settling ties for the source chosen by the decision
\* before it.
ExplainDecision_leaning_on_previous_choice ==
    /\ probe.fn \in {"none", "explain_decision"}
    /\ probe.calls < MaxCalls
    /\ LET e == explain_decision(probe.d)
           i == CHOOSE j \in 1..3 : AllSources[j] = probe.prev
           made == IF probe.prev # "" /\ e.scores[i] = Max3(e.scores)
                   THEN [e EXCEPT !.chosen_source = ChosenNames[i]]
                   ELSE e IN
       probe' = [probe EXCEPT !.fn = "explain_decision",
                              !.decision = made,
                              !.first = IF probe.calls = 0 THEN made ELSE @,
                              !.calls = @ + 1,
                              !.prev = AllSources[prediction(standardize_sensor_data(probe.d))]]
    /\ UNCHANGED <<pcvars, supvars, smvars>>

\* explain_decision applied to the drawn telemetry.
ExplainDecision ==
    /\ probe.fn \in {"none", "explain_decision"}
    /\ probe.calls < MaxCalls
    /\ LET made == explain_decision(probe.d) IN
       probe' = [probe EXCEPT !.fn = "explain_decision",
                              !.decision = made,
                              !.first = IF probe.calls = 0 THEN made ELSE @,
                              !.calls = @ + 1,
                              !.prev = AllSources[prediction(standardize_sensor_data(probe.d))]]
    /\ UNCHANGED <<pcvars, supvars, smvars>>

\* predict_optimal_source, then update_model with the chosen source, on
\* other telemetry: update_model keeps nothing, the optimizer's attributes
\* are as __init__ left them.
PredictOther ==
    /\ probe.fn \in {"none", "explain_decision"}
    /\ \E other \in OtherTelemetry :
         /\ predict_optimal_source(other) # probe.prev
         /\ probe' = [probe EXCEPT !.prev = predict_optimal_source(other)]
    /\ UNCHANGED <<pcvars, supvars, smvars>>

\* predict_optimal_source applied to the drawn telemetry, as the demo and
\* the custom test call it next to explain_decision.
PredictOptimalSource ==
    /\ probe.out = ""
    /\ probe' = [probe EXCEPT !.out = predict_optimal_source(probe.d)]
    /\ UNCHANGED <<pcvars, supvars, smvars>>

DecideNext ==
    \/ ExplainDecision
    \/ PredictOther

SpecDecide == DecideInit /\ [][DecideNext]_vars

\* Both entry points applied to the same telemetry, in either order.
AgreeNext ==
    \/ PredictOptimalSource
    \/ ExplainDecision

SpecAgree == DecideInit /\ [][AgreeNext]_vars

\* The decision made on the drawn telemetry, and that telemetry standardized.
Made == probe.decision
Std == standardize_sensor_data(probe.d)
Decided == probe.fn = "explain_decision"

C22_ConfidenceInUnitInterval ==
    Decided =>
      /\ Made.confidence[2] > 0
      /\ 0 <= Made.confidence[1]
      /\ Made.confidence[1] <= Made.confidence[2]

\* C22, the case reached: a decision with a negative solar score, a positive
\* winning score and scores summing to less than the winning score.
C22_Witness ==
    /\ Decided
    /\ Made.scores[1] < 0
    /\ Max3(Made.scores) > 0
    /\ Made.scores[1] + Made.scores[2] + Made.scores[3] < Max3(Made.scores)

\* The score of the chosen source of a decision.
WinningScore(e) ==
    LET i == CHOOSE j \in 1..3 : ChosenNames[j] = e.chosen_source IN e.scores[i]

\* a/b = c/d for fractions with positive denominators.
SameFraction(x, y) == x[1] * y[2] = y[1] * x[2]

\* C23: the confidence is exactly 0.5 when all three scores are <= 0, and
\* otherwise max(0, winning score) / (sum of max(0, score) + 0.1).
C23_ConfidenceFormula ==
    Decided =>
      LET sc == Made.scores IN
      IF sc[1] <= 0 /\ sc[2] <= 0 /\ sc[3] <= 0
      THEN SameFraction(Made.confidence, <<1, 2>>)
      ELSE SameFraction(Made.confidence,
              <<10 * Positive(WinningScore(Made)),
                10 * (Positive(sc[1]) + Positive(sc[2]) + Positive(sc[3])) + 1>>)

\* C23, the case reached: a decision with no positive score, two of them
\* negative.
C23_Witness ==
    /\ Decided
    /\ Made.scores[1] < 0 /\ Made.scores[2] = 0 /\ Made.scores[3] < 0
    /\ Made.confidence = <<1, 2>>

\* C24: Solar is chosen exactly when its score equals the maximum, Thermal
\* exactly when its score equals the maximum and Solar's does not, Battery
\* exactly when its score is strictly greater than both others.
C24_ArgmaxWithFixedTieBreak ==
    Decided =>
      LET sc == Made.scores IN
      /\ Made.chosen_source = "Solar Power" <=> (sc[1] >= sc[2] /\ sc[1] >= sc[3])
      /\ Made.chosen_source = "Thermal Energy" <=> (sc[2] > sc[1] /\ sc[2] >= sc[3])
      /\ Made.chosen_source = "Battery Power" <=> (sc[3] > sc[1] /\ sc[3] > sc[2])

\* C24, the case reached: the solar and battery scores tie above the thermal
\* score and Solar is chosen.
C24_Witness ==
    /\ Decided
    /\ Made.scores[1] = Made.scores[3] /\ Made.scores[1] > Made.scores[2]
    /\ Made.chosen_source = "Solar Power"

\* C25 as claimed: a battery level below 20 and not below 10 takes 3 off
\* the battery score, a level below 10 takes 8 off it (against the score of
\* the same telemetry with the level at 20, which earns and loses nothing).
C25_LowBatteryPenaltiesAdd ==
    Decided =>
      LET unpenalised == Scores([Std EXCEPT !.battery_level = low_level])[3] IN
      /\ (critical_level <= Std.battery_level /\ Std.battery_level < low_level)
            => Made.scores[3] = unpenalised - 3
      /\ Std.battery_level < critical_level
            => Made.scores[3] = unpenalised - 8

\* The scores of the drawn telemetry with one signal set to another value.
ScoresWith(key, value) == Scores([Std EXCEPT ![key] = value])

\* C26 as claimed: the tiers of a rule add up, so an irradiance above 600
\* earns 6, a temperature above 30 earns 5 and a battery level above 80
\* earns 3 (against the same telemetry with the signal below every tier).
C26_TiersAreCumulative ==
    Decided =>
      /\ Std.solar_irradiance > good_irradiance
            => Made.scores[1] = ScoresWith("solar_irradiance", min_irradiance)[1] + 6
      /\ Std.temperature > excellent_temp
            => Made.scores[2] = ScoresWith("temperature", good_temp)[2] + 5
      /\ Std.battery_level > high_level
            => Made.scores[3] = ScoresWith("battery_level", good_level)[3] + 3

\* What a signal earns from a rule with the tiers given from the highest
\* down, as <<threshold, points>>: the points of the first tier exceeded.
HighestTier(value, tiers) ==
    IF \E i \in 1..Len(tiers) : value > tiers[i][1]
    THEN tiers[CHOOSE i \in 1..Len(tiers) :
                 /\ value > tiers[i][1]
                 /\ \A j \in 1..(i - 1) : ~(value > tiers[j][1])][2]
    ELSE 0

\* C26 as amended: only the highest tier exceeded counts within a rule
\* (irradiance +3 above 600, else +2 above 300, else +1 above 100;
\* temperature +3 above 30, else +2 above 25; battery level +2 above 80,
\* else +1 above 50, for levels outside the penalty region), and what the
\* different rules earn is added together.
C26_HighestTierOnly ==
    Decided =>
      /\ Made.scores[1] = ScoresWith("solar_irradiance", min_irradiance)[1]
            + HighestTier(Std.solar_irradiance, <<<<600, 3>>, <<300, 2>>, <<100, 1>>>>)
      /\ Made.scores[2] = ScoresWith("temperature", good_temp)[2]
            + HighestTier(Std.temperature, <<<<30, 3>>, <<25, 2>>>>)
      /\ Std.battery_level >= low_level
            => Made.scores[3] = ScoresWith("battery_level", good_level)[3]
                  + HighestTier(Std.battery_level, <<<<80, 2>>, <<50, 1>>>>)
      /\ Made.scores[2] = ScoresWith("wind_speed", min_wind)[2]
            + HighestTier(Std.wind_speed, <<<<5, 1>>>>)

\* C26, the case reached: irradiance above 600, temperature above 30 and
\* battery level above 80 in one decision, with wind above 5.
C26_Witness ==
    /\ Decided
    /\ Std.solar_irradiance > good_irradiance
    /\ Std.temperature > excellent_temp
    /\ Std.battery_level > high_level
    /\ Std.wind_speed > min_wind

\* The scores are those of the same telemetry with the signal one below
\* its value, and not those with the signal one above.
EarnsOnlyAbove(key) ==
    /\ Made.scores = ScoresWith(key, Std[key] - 1)
    /\ Made.scores # ScoresWith(key, Std[key] + 1)

\* C27: a signal exactly at a threshold does not earn the rule of that
\* threshold (the scores are those of a value just below, not those of a
\* value just above); a battery level of exactly 20 carries no penalty; the
\* hours 6 and 18 score as midday does.
C27_StrictThresholdsClosedDay ==
    Decided =>
      /\ Std.solar_irradiance \in {good_irradiance, moderate_irradiance, min_irradiance}
            => EarnsOnlyAbove("solar_irradiance")
      /\ Std.temperature \in {excellent_temp, good_temp} => EarnsOnlyAbove("temperature")
      /\ Std.wind_speed = min_wind => EarnsOnlyAbove("wind_speed")
      /\ Std.battery_level \in {high_level, good_level} => EarnsOnlyAbove("battery_level")
      /\ Std.power_demand = high_demand => EarnsOnlyAbove("power_demand")
      /\ Std.battery_level = low_level
            => /\ Made.scores = ScoresWith("battery_level", low_level + 1)
               /\ Made.scores # ScoresWith("battery_level", low_level - 1)
      /\ Std.time_of_day \in {day_start, day_end}
            => /\ Made.scores = ScoresWith("time_of_day", 12)
               /\ Made.scores # ScoresWith("time_of_day", Std.time_of_day + 13)

\* C27, the case reached: a decision at 18 h with irradiance, temperature,
\* wind, battery level and demand each exactly at a threshold.
C27_Witness ==
    /\ Decided
    /\ Std.time_of_day = day_end
    /\ Std.solar_irradiance = good_irradiance
    /\ Std.temperature = excellent_temp
    /\ Std.wind_speed = min_wind
    /\ Std.battery_level = low_level
    /\ Std.power_demand = high_demand

\* The signals with an alias, as <<direct key, alias, default>>, and those
\* without, as <<key, default>>.
AliasedSignals ==
    << <<"temperature", "ambient_temperature", 20>>,
       <<"battery_level", "battery_soc", 50>>,
       <<"power_demand", "load_demand", 100>>,
       <<"time_of_day", "hour_of_day", 12>> >>
PlainSignals == << <<"wind_speed", 0>>, <<"weather_condition", "clear">> >>

\* C28: the decision on telemetry lacking a signal is the decision on the
\* same telemetry with the signal at its default (irradiance: at the solar
\* voltage x 50, or 0 when that is absent too); with a direct key and its
\* alias both present, it is the decision without the alias.
C28_DefaultsAndAliases ==
    Decided =>
      LET raw == probe.d
          keys == DOMAIN raw IN
      /\ \A i \in 1..Len(AliasedSignals) :
           LET sig == AliasedSignals[i] IN
           /\ (sig[1] \notin keys /\ sig[2] \notin keys)
                 => Made = explain_decision(WithKey(raw, sig[1], sig[3]))
           /\ (sig[1] \in keys /\ sig[2] \in keys)
                 => Made = explain_decision(Restrict(raw, keys \ {sig[2]}))
      /\ \A i \in 1..Len(PlainSignals) :
           LET sig == PlainSignals[i] IN
           sig[1] \notin keys => Made = explain_decision(WithKey(raw, sig[1], sig[2]))
      /\ "solar_irradiance" \notin keys
            => Made = explain_decision(
                        WithKey(raw, "solar_irradiance", Get(raw, "solar_voltage", 0) * 5))
      /\ ("solar_irradiance" \in keys /\ "solar_voltage" \in keys)
            => Made = explain_decision(Restrict(raw, keys \ {"solar_voltage"}))

\* C28, the case reached: a decision on telemetry with neither hour key nor
\* battery key, with the temperature under both its keys and the irradiance
\* only as a solar voltage.
C28_Witness ==
    /\ Decided
    /\ DOMAIN probe.d \cap {"time_of_day", "hour_of_day", "battery_level", "battery_soc"} = {}
    /\ {"temperature", "ambient_temperature", "solar_voltage"} \subseteq DOMAIN probe.d
    /\ "solar_irradiance" \notin DOMAIN probe.d

\* The prediction index of the decision made.
Winner == CHOOSE j \in 1..3 : ChosenNames[j] = Made.chosen_source

\* The reasoning entries that name a rule of a source's own score, and the
\* condition under which that rule adds to the score.
RuleFired(entry) ==
    CASE entry = "Excellent solar irradiance detected"
            -> Winner = 1 /\ Std.solar_irradiance > good_irradiance
      [] entry = "Daytime hours favor solar energy"
            -> Winner = 1 /\ day_start <= Std.time_of_day /\ Std.time_of_day <= day_end
      [] entry = "High temperature excellent for thermal energy"
            -> Winner = 2 /\ Std.temperature > excellent_temp
      [] entry = "Wind conditions support thermal efficiency"
            -> Winner = 2 /\ Std.wind_speed > min_wind
      [] entry = "High power demand suits thermal stability"
            -> Winner = 2 /\ Std.power_demand > high_demand
      [] entry = "Night time favors battery usage"
            -> Winner = 3 /\ IsNight(Std)
      [] entry = "High battery level available for use"
            -> Winner = 3 /\ Std.battery_level > high_level
      [] entry = DefaultReason -> TRUE
      [] OTHER -> FALSE

\* C29 as claimed: every entry of the reasoning names a rule of the winning
\* source's own score that fired on this telemetry.
C29_ReasonsAreFiredRulesOfWinner ==
    Decided => \A i \in 1..Len(Made.reasoning) : RuleFired(Made.reasoning[i])

\* C30: the reasoning is never empty; it is the fallback entry alone exactly
\* when none of the winning source's reasoning clauses fired, and holds no
\* fallback entry otherwise.
C30_ReasoningNeverEmpty ==
    Decided =>
      LET fired == reasons(Std, Winner) IN
      /\ Made.reasoning # <<>>
      /\ fired = <<>> <=> Made.reasoning = <<DefaultReason>>
      /\ fired # <<>> => /\ Made.reasoning = fired
                         /\ \A i \in 1..Len(Made.reasoning) :
                              Made.reasoning[i] # DefaultReason

\* C30, the case reached: thermal wins with none of its three reasoning
\* clauses fired, and the reasoning is the fallback entry alone.
C30_Witness ==
    /\ Decided
    /\ Made.chosen_source = "Thermal Energy"
    /\ Std.temperature <= 30 /\ Std.wind_speed <= 5 /\ Std.power_demand <= 150
    /\ Made.reasoning = <<DefaultReason>>

\* C31: on the noon scenario the chosen source is Solar and the reasoning
\* holds the irradiance entry.
C31_NoonScenarioIsSolar ==
    (Decided /\ probe.d = ScenarioA) =>
      /\ Made.chosen_source = "Solar Power"
      /\ \E i \in 1..Len(Made.reasoning) :
           Made.reasoning[i] = "Excellent solar irradiance detected"

\* C31, the case reached: a decision made on the noon scenario.
C31_Witness == Decided /\ probe.d = ScenarioA /\ Made.chosen_source = "Solar Power"

\* C32: on the night scenario the chosen source is Battery, with a negative
\* solar score, a thermal score of 1 (the night bonus) and a battery score
\* of 2 (level above 50, and the night bonus).
C32_NightScenarioIsBattery ==
    (Decided /\ probe.d = ScenarioB) =>
      /\ Made.chosen_source = "Battery Power"
      /\ Made.scores[1] < 0
      /\ Made.scores[2] = 1
      /\ Made.scores[3] = 2
      /\ ScoresWith("time_of_day", 12)[2] = 0
      /\ ScoresWith("time_of_day", 12)[3] = 1
      /\ ScoresWith("battery_level", 50)[3] = 1

\* C32, the case reached: a decision made on the night scenario.
C32_Witness == Decided /\ probe.d = ScenarioB /\ Made.scores[3] = 2

-----------------------------------------------------------------------------
\* The external logger in the control loop (SpecSup).

\* A call of the DataLogger fails in this step, for the first time in the
\* cycle.
LoggingFails == ~cycle.log_failed /\ cycle'.log_failed

\* C33: a failure of the logger while the state of a cycle or an emergency
\* is recorded does not fail the cycle: the step it happens in goes on to the
\* health check or to the end of the cycle, leaves relay_states and the
\* PowerController alone and gives current_source the value the cycle's
\* switch or emergency switch has earned it; a cycle with a failed logger
\* call is never in the loop's error handling.
C33_LogFailureIsSwallowed ==
    /\ [][LoggingFails =>
            /\ sup_pc' \in {"health", "sleep"}
            /\ relay_states' = relay_states
            /\ frame'["ctl"] = IdleFrame
            /\ current_source' =
                 (CASE sup_pc = "await_switch" ->
                         IF frame["ctl"].ret = "True" THEN optimal_source
                         ELSE current_source
                    [] sup_pc = "await_emergency" -> safe_source
                    [] OTHER -> current_source)]_vars
    /\ [](cycle.log_failed => sup_pc \in {"health", "await_emergency", "sleep"})

\* C33, the case reached: the state record of a cycle that switched to solar
\* could not be written, the health check ran all the same and handled an
\* emergency, and the cycle ends on battery, the one source energized.
C33_Witness ==
    /\ EndOfCycle /\ cycle.log_failed
    /\ cycle.switch = "True" /\ optimal_source = "solar"
    /\ cycle.emergency /\ cycle.logged = 1
    /\ current_source = "battery" /\ Energized = {"battery"}

-----------------------------------------------------------------------------
\* The control loop and a shutdown requested from outside its thread: the
\* dashboard thread, which start_system hands the system object, calls
\* shutdown while the loop is in a cycle or between two cycles. The system
\* is in simulation mode.

\* The shutdown signal: `self.running = False`, shutdown's first assignment,
\* made by the requesting thread at any point of the loop's cycle.
shutdown_request ==
    /\ LoopAlive /\ running
    /\ running' = FALSE
    /\ UNCHANGED <<pcvars, current_source, sup_pc, sensor_data, optimal_source,
                   health_idx, safe_source, cycle, smvars, probe>>

\* The steps of the loop's own thread that do not raise.
LoopStep ==
    \/ control_loop_top
    \/ switch_energy_source
    \/ switch_energy_source_return
    \/ check_system_health
    \/ handle_emergency_return
    \/ control_loop_sleep
    \/ control_loop_backoff
    \/ SwitchBreak
    \/ SwitchMake
    \/ EmergencyOff
    \/ EmergencyActivate

StopNext ==
    \/ LoopStep
    \/ control_loop_raises
    \/ shutdown_request

\* The system in simulation mode (no GPIO library, as in ConcInit).
StopInit == SupInit /\ ~hardware_available

\* The loop's thread keeps running: its sleeps and its relay delays end.
SpecStop ==
    /\ StopInit
    /\ [][StopNext]_vars
    /\ WF_vars(LoopStep)

\* C34: the loop test reads running at the top of every cycle: with running
\* false the test leaves the loop and starts no cycle, a cycle in flight
\* when running became false goes on only to its own end or to the loop's
\* error handling, and the loop always comes to its end.
C34_ShutdownStopsLoopAtCycleTop ==
    /\ [][(~running /\ sup_pc = "top") => sup_pc' = "exited"]_vars
    /\ [][(~running /\ sup_pc' = "switch") => sup_pc = "switch"]_vars
    /\ [][(sup_pc # "exited" /\ sup_pc' = "exited") => (sup_pc = "top" /\ ~running)]_vars
    /\ (~running) ~> (sup_pc = "exited")

\* C34, the case reached: running became false during a cycle that had
\* switched to solar; the cycle was finished and the loop has been left.
C34_Witness ==
    /\ sup_pc = "exited" /\ ~running
    /\ current_source = "solar" /\ Energized = {"solar"}

-----------------------------------------------------------------------------
\* The demo's day cycle and the scores (SpecDecide).

\* C35 as claimed: the afternoon scenario of the day cycle is decided as
\* Thermal and the evening scenario as Battery.
C35_AfternoonThermalEveningBattery ==
    /\ (Decided /\ probe.d = Afternoon) => Made.chosen_source = "Thermal Energy"
    /\ (Decided /\ probe.d = Evening) => Made.chosen_source = "Battery Power"

\* C38: the thermal score is never negative; Battery is chosen only with a
\* score of at least 1 that is strictly greater than both other scores, and
\* never when all three scores are at most 0 (the confidence is then 0.5).
C38_BatteryOnlyOnStrictPositiveLead ==
    Decided =>
      /\ Made.scores[2] >= 0
      /\ Made.chosen_source = "Battery Power"
            => /\ Made.scores[3] >= 1
               /\ Made.scores[3] > Made.scores[1]
               /\ Made.scores[3] > Made.scores[2]
      /\ (\A i \in 1..3 : Made.scores[i] <= 0)
            => /\ Made.chosen_source # "Battery Power"
               /\ Made.confidence = <<1, 2>>

\* C38, the case reached: no score is positive, the battery score is
\* negative, and the decision is Thermal with a score of 0.
C38_Witness ==
    /\ Decided
    /\ \A i \in 1..3 : Made.scores[i] <= 0
    /\ Made.scores[3] < 0
    /\ Made.chosen_source = "Thermal Energy"

-----------------------------------------------------------------------------
\* The Supervisor's record and the relays (SpecSup).

\* C36 as claimed: at the end of every control cycle current_source names
\* the one source that is energized.
C36_CurrentSourceIsTheEnergizedOne ==
    EndOfCycle => Energized = {current_source}

\* C40 as claimed: battery is the target of an emergency switch only when
\* the condition that triggered the emergency is the thermal
\* over-temperature, never when it is a battery condition.
C40_BatteryTargetOnlyOnThermalEmergency ==
    (sup_pc = "await_emergency" /\ safe_source = "battery")
        => emergency_conditions[health_idx][1] = "thermal_temperature"

-----------------------------------------------------------------------------
\* The two entry points of the decision engine (SpecAgree).

\* The source explain_decision's chosen_source names.
SourceOf(chosen) == AllSources[CHOOSE j \in 1..3 : ChosenNames[j] = chosen]

\* C37: on every telemetry the source predict_optimal_source returns is the
\* source explain_decision's chosen_source names, and the scores reported
\* are the integer scores whose first maximum is that source.
C37_PredictAndExplainAgree ==
    (Decided /\ probe.out # "") =>
      /\ probe.out = SourceOf(Made.chosen_source)
      /\ Made.scores = Scores(Std)
      /\ \A i \in 1..3 : Made.scores[i] \in Int
      /\ LET won == CHOOSE j \in 1..3 : AllSources[j] = probe.out IN
         /\ Made.scores[won] = Max3(Made.scores)
         /\ \A i \in 1..(won - 1) : Made.scores[i] < Made.scores[won]

\* C37, the case reached: both entry points were applied to telemetry whose
\* aliases disagree with its direct keys, and both name the battery.
C37_Witness ==
    /\ Decided /\ probe.out = "battery"
    /\ Made.chosen_source = "Battery Power"
    /\ {"battery_level", "battery_soc", "time_of_day", "hour_of_day"} \subseteq DOMAIN probe.d

-----------------------------------------------------------------------------
\* Readings with missing fields (SpecSafety).

\* C39: a reading without battery_voltage is taken as 0 V: check_system_health
\* enters the emergency path on the battery voltage and the battery fails its
\* safety check; on a reading with no voltage and no temperature field every
\* source fails its check, the health status is 'critical' and the emergency
\* path is entered.
C39_MissingBatteryVoltageIsZero ==
    /\ "battery_voltage" \notin DOMAIN probe.d =>
         /\ probe.fn = "check_system_health"
               => (probe.ok /\ probe.arg = "battery_voltage")
         /\ (probe.fn = "is_safe_to_switch" /\ probe.arg = "battery") => ~probe.ok
    /\ probe.d = NoTelemetry =>
         /\ (probe.fn = "is_safe_to_switch" /\ probe.arg \in Sources) => ~probe.ok
         /\ probe.fn = "get_health_status" => probe.out = "critical"

\* C39, the case reached: check_system_health entered the emergency path on
\* a reading that has every field but battery_voltage.
C39_Witness ==
    /\ probe.fn = "check_system_health" /\ probe.ok
    /\ "battery_voltage" \notin DOMAIN probe.d
    /\ {"battery_temperature", "solar_voltage", "thermal_voltage"} \subseteq DOMAIN probe.d

====
